---- MODULE Spec2Model ----
(***************************************************************************)
(* Model of login_etl.py: SQSInterface, PostgreSQLInterface and            *)
(* LoginETLService (the receive -> validate -> transform -> write loop).   *)
(*                                                                         *)
(* Strings are sequences of one-character strings.  A Python dict is a     *)
(* sequence of <<key, value>> pairs in insertion order.  A JSON null is    *)
(* the value NULL, a datetime.date is DateVal(n).  A message body is       *)
(* either unparseable or a JSON object (the body is "assumed to be a       *)
(* serialized structured object"); values are strings or null.             *)
(***************************************************************************)
EXTENDS Integers, Sequences, FiniteSets, TLC

VARIABLES
    queue,      \* messages held by the SQS queue (not yet deleted)
    pc,         \* position of the single control thread
    response,   \* the message of the last receive response, NoMessage if none
    data,       \* local `data` of LoginETLService.start
    err,        \* the exception that ended the run, "None" while running
    table,      \* committed rows of the target table
    txn,        \* the connection's transaction: open flag and pending rows
    deleted,    \* ids of the messages for which delete_message succeeded
    clock,      \* the day datetime.date.today() last returned
    raw,        \* the event as parsed, before _transform mutates it
    s,          \* argument of _mask
    masked,     \* results of successive _mask applications to s
    ev,         \* argument of _is_valid / _transform
    validRes,   \* result of _is_valid(ev), <<>> before the call
    tr,         \* results of successive _transform applications to ev
    log,        \* what happened to each delivered message, in order
    stmts,      \* the statements write built, with the values bound to them
    stripped    \* results of successive '.'-removals applied to s

vars == <<queue, pc, response, data, err, table, txn, deleted, clock, raw,
          s, masked, ev, validRes, tr, log, stmts, stripped>>

loopVars == <<queue, pc, response, data, err, table, txn, deleted, clock, raw,
              log, stmts>>
maskVars == <<s, masked, stripped>>
eventVars == <<ev, validRes, tr>>

----------------------------------------------------------------------------
(* Bounds *)

\* longest string given to _mask
MaxLen == 4
\* longest ip / app_version value of a generated event
MaxFieldLen == 2
\* _mask is applied at most this often in a row
MaxMaskCalls == 2
\* _transform is applied at most this often in a row
MaxTransforms == 2
\* messages in the queue at start
MaxQueue == 2
\* days the run may span
MaxDate == 2
\* str.replace is applied at most this often in a row
MaxStripCalls == 2

----------------------------------------------------------------------------
(* Values *)

Chars == {"a", "b", "."}

StringsUpTo(n) == UNION {[1..k -> Chars] : k \in 0..n}

NULL == <<"null">>

DateVal(n) == <<"date", ToString(n)>>

IsStr(v) == \A i \in DOMAIN v : v[i] \in Chars

Last(q) == q[Len(q)]

----------------------------------------------------------------------------
(* Python dict: insertion-ordered sequence of <<key, value>> *)

Keys(d) == {d[i][1] : i \in DOMAIN d}

Has(d, k) == \E i \in DOMAIN d : d[i][1] = k

Get(d, k) == d[CHOOSE i \in DOMAIN d : d[i][1] = k][2]

Set(d, k, v) ==
    IF Has(d, k)
    THEN [i \in DOMAIN d |-> IF d[i][1] = k THEN <<k, v>> ELSE d[i]]
    ELSE Append(d, <<k, v>>)

Del(d, k) == SelectSeq(d, LAMBDA p : p[1] # k)

None == [kind |-> "none", items |-> <<>>]

Dict(items) == [kind |-> "dict", items |-> items]

----------------------------------------------------------------------------
(* LoginETLService *)

ExpectedFields ==
    <<"user_id", "device_type", "ip", "device_id", "locale", "app_version">>

ExpectedSet == {ExpectedFields[i] : i \in DOMAIN ExpectedFields}

\* data[mid:] + data[mid:]
MaskBadSlice(str) ==
    LET mid == Len(str) \div 2
    IN  SubSeq(str, mid + 1, Len(str)) \o SubSeq(str, mid + 1, Len(str))

\* data[mid:] + data[:mid] with mid = len(data) // 2
Mask(str) ==
    LET mid == Len(str) \div 2
    IN  SubSeq(str, mid + 1, Len(str)) \o SubSeq(str, 1, mid)

\* str.replace(".", "", 1)
StripFirstDot(v) ==
    IF \E i \in DOMAIN v : v[i] = "."
    THEN LET i == CHOOSE i \in DOMAIN v :
                      v[i] = "." /\ \A j \in 1..(i - 1) : v[j] # "."
         IN  SubSeq(v, 1, i - 1) \o SubSeq(v, i + 1, Len(v))
    ELSE v

\* str.replace(".", "")
StripDots(v) == SelectSeq(v, LAMBDA c : c # ".")

\* any(...) in place of all(...)
IsValidAny(d) ==
    /\ d.kind # "none"
    /\ \E i \in DOMAIN ExpectedFields : Has(d.items, ExpectedFields[i])

\* data is not None and all(field in data for field in _expected_raw_login_fields)
IsValid(d) ==
    /\ d.kind # "none"
    /\ \A i \in DOMAIN ExpectedFields : Has(d.items, ExpectedFields[i])

\* One statement of _transform that reads data[key] and applies a str
\* operation: KeyError when the key is absent, the given error when the
\* value is not a str.
ReadStr(d, key, typeErr) ==
    IF ~Has(d, key) THEN "KeyError"
    ELSE IF ~IsStr(Get(d, key)) THEN typeErr
    ELSE "None"

\* the element of a one-element set: a statement applied to the state the
\* statements before it left
The(S) == CHOOSE r \in S : TRUE

\* The state of a running _transform: the exception raised so far ("None"
\* if none) and the dict as mutated so far.  A statement does nothing once
\* an exception is raised.

\* data[dst] = self._mask(data[src])
MaskField(st, src, dst) ==
    IF st.err # "None" THEN st
    ELSE IF ReadStr(st.data, src, "TypeError") # "None"
    THEN [err |-> ReadStr(st.data, src, "TypeError"), data |-> st.data]
    ELSE [err |-> "None", data |-> Set(st.data, dst, Mask(Get(st.data, src)))]

\* data["app_version"] = data["app_version"].replace(".", "")
StripVersion(st) ==
    IF st.err # "None" THEN st
    ELSE IF ReadStr(st.data, "app_version", "AttributeError") # "None"
    THEN [err |-> ReadStr(st.data, "app_version", "AttributeError"), data |-> st.data]
    ELSE [err |-> "None",
          data |-> Set(st.data, "app_version", StripDots(Get(st.data, "app_version")))]

\* data["create_date"] = datetime.date.today()
StampDate(st, today) ==
    IF st.err # "None" THEN st
    ELSE [err |-> "None", data |-> Set(st.data, "create_date", today)]

\* del data[key]
DelField(st, key) ==
    IF st.err # "None" THEN st
    ELSE IF ~Has(st.data, key) THEN [err |-> "KeyError", data |-> st.data]
    ELSE [err |-> "None", data |-> Del(st.data, key)]

\* _transform without its last statement, del data["device_id"]
TransformKeepsDeviceId(d, today) ==
    LET s0 == [err |-> "None", data |-> d]
        s1 == The({MaskField(st, "ip", "masked_ip") : st \in {s0}})
        s2 == The({MaskField(st, "device_id", "masked_device_id") : st \in {s1}})
        s3 == The({StripVersion(st) : st \in {s2}})
        s4 == The({StampDate(st, today) : st \in {s3}})
        s5 == The({DelField(st, "ip") : st \in {s4}})
    IN  s5

\* _transform without its two del statements
TransformKeepsBoth(d, today) ==
    LET s0 == [err |-> "None", data |-> d]
        s1 == The({MaskField(st, "ip", "masked_ip") : st \in {s0}})
        s2 == The({MaskField(st, "device_id", "masked_device_id") : st \in {s1}})
        s3 == The({StripVersion(st) : st \in {s2}})
        s4 == The({StampDate(st, today) : st \in {s3}})
    IN  s4

\* _transform mutates its argument statement by statement; the result is the
\* exception raised ("None" when it returns) and the dict as left behind.
Transform(d, today) ==
    LET s0 == [err |-> "None", data |-> d]
        s1 == The({MaskField(st, "ip", "masked_ip") : st \in {s0}})
        s2 == The({MaskField(st, "device_id", "masked_device_id") : st \in {s1}})
        s3 == The({StripVersion(st) : st \in {s2}})
        s4 == The({StampDate(st, today) : st \in {s3}})
        s5 == The({DelField(st, "ip") : st \in {s4}})
        s6 == The({DelField(st, "device_id") : st \in {s5}})
    IN  s6

----------------------------------------------------------------------------
(* Generated inputs *)

SampleVals ==
    [f \in ExpectedSet |->
        CASE f = "user_id" -> <<"a">>
          [] f = "device_type" -> <<"b">>
          [] f = "ip" -> <<"a", ".", "b", ".">>
          [] f = "device_id" -> <<"a", "b">>
          [] f = "locale" -> <<"a", "b">>
          [] f = "app_version" -> <<"a", ".", "b">>]

\* The JSON object with the given expected fields, in the order of
\* ExpectedFields, followed by the extra items.
Items(present, valOf, extra) ==
    LET ks == SelectSeq(ExpectedFields, LAMBDA f : f \in present)
    IN  [i \in DOMAIN ks |-> <<ks[i], valOf[ks[i]]>>] \o extra

FieldVals == StringsUpTo(MaxFieldLen) \cup {NULL}

DeviceVals == {<<"a", "b">>, <<"a", "b", ".">>, NULL}

UserVals == {<<"a">>, NULL}

ExtraItems ==
    { <<>>,
      << <<"extra", <<"a">> >> >>,
      << <<"masked_ip", <<"b">> >> >>,
      << <<"create_date", <<"a">> >> >> }

FullEvents ==
    {Dict(Items(ExpectedSet,
                [SampleVals EXCEPT !["ip"] = i, !["app_version"] = v,
                                   !["device_id"] = dv, !["user_id"] = u],
                x)) :
        i \in FieldVals, v \in FieldVals, dv \in DeviceVals,
        u \in UserVals, x \in ExtraItems}

NullAt(n) == [f \in ExpectedSet |-> IF f = n THEN NULL ELSE SampleVals[f]]

PartialEvents ==
    {Dict(Items(p, NullAt(n), x)) :
        p \in SUBSET ExpectedSet, n \in ExpectedSet \cup {"none"},
        x \in ExtraItems}

Events == FullEvents \cup PartialEvents \cup {None}

----------------------------------------------------------------------------
(* _mask applied to a generated string, then to its own result *)

MaskInit ==
    /\ s \in StringsUpTo(MaxLen)
    /\ masked = <<>>
    /\ ev = None /\ validRes = <<>> /\ tr = <<>>
    /\ queue = <<>> /\ pc = "receive" /\ response = [id |-> 0, body |-> None]
    /\ data = None /\ err = "None" /\ table = <<>>
    /\ txn = [open |-> FALSE, rows |-> <<>>]
    /\ deleted = <<>> /\ clock = 1 /\ raw = None
    /\ log = <<>> /\ stmts = <<>> /\ stripped = <<>>

MaskCall ==
    /\ Len(masked) < MaxMaskCalls
    /\ masked' = Append(masked, Mask(IF masked = <<>> THEN s ELSE Last(masked)))
    /\ UNCHANGED <<s, stripped, eventVars, loopVars>>

\* s.replace(".", ""), then the same on the previous result
StripDotsCall ==
    /\ Len(stripped) < MaxStripCalls
    /\ stripped' = Append(stripped,
                          StripDots(IF stripped = <<>> THEN s ELSE Last(stripped)))
    /\ UNCHANGED <<s, masked, eventVars, loopVars>>

MaskNext == MaskCall \/ StripDotsCall

MaskSpec == MaskInit /\ [][MaskNext]_vars

----------------------------------------------------------------------------
(* _is_valid and _transform applied to a generated event *)

EventInit ==
    /\ ev \in Events
    /\ validRes = <<>> /\ tr = <<>>
    /\ s = <<>> /\ masked = <<>>
    /\ queue = <<>> /\ pc = "receive" /\ response = [id |-> 0, body |-> None]
    /\ data = None /\ err = "None" /\ table = <<>>
    /\ txn = [open |-> FALSE, rows |-> <<>>]
    /\ deleted = <<>> /\ clock = 1 /\ raw = None
    /\ log = <<>> /\ stmts = <<>> /\ stripped = <<>>

IsValidCall ==
    /\ validRes = <<>>
    /\ validRes' = <<IsValid(ev)>>
    /\ UNCHANGED <<ev, tr, maskVars, loopVars>>

\* _transform(ev), then _transform of the object the previous call returned
TransformCall ==
    /\ ev.kind = "dict"
    /\ Len(tr) < MaxTransforms
    /\ IF tr = <<>> THEN TRUE ELSE Last(tr).err = "None"
    /\ \E n \in 1..MaxDate :
          tr' = Append(tr, Transform(IF tr = <<>> THEN ev.items ELSE Last(tr).data,
                                     DateVal(n)))
    /\ UNCHANGED <<ev, validRes, maskVars, loopVars>>

EventNext == IsValidCall \/ TransformCall

EventSpec == EventInit /\ [][EventNext]_vars

----------------------------------------------------------------------------
(* The service: SQS queue, PostgreSQL table, LoginETLService.start *)

Malformed == [kind |-> "malformed", items |-> <<>>]

NoMessage == [id |-> 0, body |-> None]

SampleBodies ==
    { Dict(Items(ExpectedSet, SampleVals, <<>>)),
      Dict(Items(ExpectedSet, SampleVals, << <<"extra", <<"a">> >> >>)),
      Dict(Items(ExpectedSet, SampleVals, << <<"masked_ip", <<"b">> >> >>)),
      Dict(Items(ExpectedSet \ {"locale"}, SampleVals, <<>>)),
      Dict(Items(ExpectedSet, NullAt("ip"), <<>>)),
      Dict(Items(ExpectedSet, NullAt("user_id"), <<>>)),
      Dict(<<>>),
      Malformed }

Queues ==
    UNION {{[i \in 1..n |-> [id |-> i, body |-> bs[i]]] : bs \in [1..n -> SampleBodies]} :
              n \in 0..MaxQueue}

QueueIds == {queue[i].id : i \in DOMAIN queue}

TableIds == {table[i].src : i \in DOMAIN table}

NoTxn == [open |-> FALSE, rows |-> <<>>]

Init ==
    /\ queue \in Queues
    /\ pc = "receive"
    /\ response = NoMessage
    /\ data = None
    /\ err = "None"
    /\ table = <<>>
    /\ txn = NoTxn
    /\ deleted = <<>>
    /\ clock = 1
    /\ raw = None
    /\ log = <<>>
    /\ stmts = <<>>
    /\ s = <<>> /\ masked = <<>> /\ stripped = <<>>
    /\ ev = None /\ validRes = <<>> /\ tr = <<>>

\* the log with one more entry about message m
Logged(l, op, m) == Append(l, [op |-> op, msg |-> m])

\* client.receive_message raises: the exception leaves start
ReceiveFails ==
    /\ pc = "receive"
    /\ pc' = "crashed"
    /\ err' = "receive"
    /\ UNCHANGED <<queue, response, data, table, txn, deleted, clock, raw,
                   log, stmts, maskVars, eventVars>>

\* "Messages" not in response (or empty): receive_message returns None
ReceiveEmpty ==
    /\ pc = "receive"
    /\ response' = NoMessage
    /\ data' = None
    /\ raw' = None
    /\ pc' = "validate"
    /\ UNCHANGED <<queue, err, table, txn, deleted, clock, log, stmts,
                   maskVars, eventVars>>

\* the response carries one message of the queue
ReceiveMessage ==
    /\ pc = "receive"
    /\ \E i \in DOMAIN queue :
          /\ response' = queue[i]
          /\ log' = Logged(log, "deliver", queue[i])
    /\ pc' = "delete"
    /\ UNCHANGED <<queue, data, err, table, txn, deleted, clock, raw, stmts,
                   maskVars, eventVars>>

\* the delete request has no effect on the queue
RemovedNothing(q, id) == q

\* the queue after delete_message(ReceiptHandle) of message id
Removed(q, id) == SelectSeq(q, LAMBDA m : m.id # id)

\* receive_message without its call of _delete_message
DeleteMessageSkipped ==
    /\ pc = "delete"
    /\ pc' = "loads"
    /\ UNCHANGED <<queue, deleted, response, data, err, table, txn, clock, raw,
                   log, stmts, maskVars, eventVars>>

\* _delete_message(message["ReceiptHandle"])
DeleteMessage ==
    /\ pc = "delete"
    /\ queue' = Removed(queue, response.id)
    /\ deleted' = Append(deleted, response.id)
    /\ log' = Logged(log, "delete", response)
    /\ pc' = "loads"
    /\ UNCHANGED <<response, data, err, table, txn, clock, raw, stmts,
                   maskVars, eventVars>>

\* client.delete_message raises
DeleteFails ==
    /\ pc = "delete"
    /\ pc' = "crashed"
    /\ err' = "delete"
    /\ log' = Logged(Logged(log, "delete", response), "fail", response)
    /\ UNCHANGED <<queue, response, data, table, txn, deleted, clock, raw,
                   stmts, maskVars, eventVars>>

\* json.loads raises, caught inside receive_message, which returns None
LoadsSwallows ==
    /\ pc = "loads"
    /\ IF response.body.kind = "malformed"
       THEN /\ data' = None
            /\ raw' = None
            /\ pc' = "validate"
            /\ log' = log
       ELSE /\ data' = response.body
            /\ raw' = response.body
            /\ pc' = "validate"
            /\ log' = log
    /\ UNCHANGED <<queue, response, err, table, txn, deleted, clock, stmts,
                   maskVars, eventVars>>

\* return json.loads(message["Body"]); data = <the returned dict>
Loads ==
    /\ pc = "loads"
    /\ IF response.body.kind = "malformed"
       THEN /\ pc' = "crashed"
            /\ err' = "JSONDecodeError"
            /\ log' = Logged(log, "fail", response)
            /\ UNCHANGED <<data, raw>>
       ELSE /\ data' = response.body
            /\ raw' = response.body
            /\ pc' = "validate"
            /\ err' = err
            /\ log' = log
    /\ UNCHANGED <<queue, response, table, txn, deleted, clock, stmts,
                   maskVars, eventVars>>

\* if self._is_valid(data): continue
ValidateInverted ==
    /\ pc = "validate"
    /\ pc' = IF IsValid(data) THEN "receive" ELSE "transform"
    /\ log' = IF IsValid(data) /\ response # NoMessage
              THEN Logged(log, "drop", response) ELSE log
    /\ UNCHANGED <<queue, response, data, err, table, txn, deleted, clock, raw,
                   stmts, maskVars, eventVars>>

\* if not self._is_valid(data): break
ValidateBreaks ==
    /\ pc = "validate"
    /\ pc' = IF IsValid(data) THEN "transform" ELSE "stopped"
    /\ log' = IF ~IsValid(data) /\ response # NoMessage
              THEN Logged(log, "drop", response) ELSE log
    /\ UNCHANGED <<queue, response, data, err, table, txn, deleted, clock, raw,
                   stmts, maskVars, eventVars>>

\* if not self._is_valid(data): continue
Validate ==
    /\ pc = "validate"
    /\ pc' = IF IsValid(data) THEN "transform" ELSE "receive"
    /\ log' = IF ~IsValid(data) /\ response # NoMessage
              THEN Logged(log, "drop", response) ELSE log
    /\ UNCHANGED <<queue, response, data, err, table, txn, deleted, clock, raw,
                   stmts, maskVars, eventVars>>

\* data = self._transform(data)
TransformStep ==
    /\ pc = "transform"
    /\ \E n \in clock..MaxDate :
          LET r == Transform(data.items, DateVal(n))
          IN  /\ clock' = n
              /\ data' = Dict(r.data)
              /\ IF r.err = "None"
                 THEN /\ pc' = "write"
                      /\ err' = err
                      /\ log' = Logged(log, "transform", response)
                 ELSE /\ pc' = "crashed"
                      /\ err' = r.err
                      /\ log' = Logged(Logged(log, "transform", response),
                                       "fail", response)
    /\ UNCHANGED <<queue, response, table, txn, deleted, raw, stmts,
                   maskVars, eventVars>>

\* table="user_logins"
Table == "user_logins"

\* sql.Identifier(name): a quoted identifier
Identifier(name) == <<"ident", name>>

\* sql.SQL(text): literal statement text
SQL(text) == <<"sql", text>>

\* sep.join(parts)
RECURSIVE Join(_, _)
Join(sep, parts) ==
    IF Len(parts) <= 1 THEN parts
    ELSE <<Head(parts), sep>> \o Join(sep, Tail(parts))

\* "(" + ", ".join(["%s"] * len(row)) + ")"
Placeholders(row) ==
    <<SQL("(")>> \o Join(SQL(", "), [i \in DOMAIN row |-> SQL("%s")]) \o <<SQL(")")>>

\* the statement with the values written into its text
StatementInterpolated(tbl, row) ==
    <<SQL("INSERT INTO "), Identifier(tbl), SQL(" (")>>
        \o Join(SQL(", "), [i \in DOMAIN row |-> Identifier(row[i][1])])
        \o <<SQL(") VALUES "), SQL("(")>>
        \o Join(SQL(", "), [i \in DOMAIN row |-> <<"lit", row[i][2]>>])
        \o <<SQL(")"), SQL(";")>>

\* sql.SQL("INSERT INTO {} ({}) VALUES " + placeholders + ";").format(
\*     table_name, column_names)
Statement(tbl, row) ==
    <<SQL("INSERT INTO "), Identifier(tbl), SQL(" (")>>
        \o Join(SQL(", "), [i \in DOMAIN row |-> Identifier(row[i][1])])
        \o <<SQL(") VALUES ")>>
        \o Placeholders(row)
        \o <<SQL(";")>>

\* tuple(row.values())
Values(row) == [i \in DOMAIN row |-> row[i][2]]

\* what write(self.table, data) builds and hands to cursor.execute
Built == [src |-> response.id, raw |-> raw.items, row |-> data.items,
          stmt |-> Statement(Table, data.items), params |-> Values(data.items)]

\* the row cursor.execute inserts; src and raw record where it came from
Entry == [src |-> response.id, raw |-> raw.items, row |-> data.items]

\* write returns to the loop before the transaction has ended
ExecuteNoWait ==
    /\ pc = "write"
    /\ txn' = [open |-> TRUE, rows |-> <<Entry>>]
    /\ stmts' = Append(stmts, Built)
    /\ log' = Logged(log, "write", response)
    /\ pc' = "receive"
    /\ UNCHANGED <<queue, response, data, err, table, deleted, clock, raw,
                   maskVars, eventVars>>

\* with self.connection: ... cursor.execute(statement, values) returns
Execute ==
    /\ pc = "write"
    /\ txn' = [open |-> TRUE, rows |-> <<Entry>>]
    /\ stmts' = Append(stmts, Built)
    /\ log' = Logged(log, "write", response)
    /\ pc' = "exit"
    /\ UNCHANGED <<queue, response, data, err, table, deleted, clock, raw,
                   maskVars, eventVars>>

\* an exception is raised inside the with block, before or after the INSERT
\* took effect in the open transaction
ExecuteFails ==
    /\ pc = "write"
    /\ \E rows \in {<<>>, <<Entry>>} : txn' = [open |-> TRUE, rows |-> rows]
    /\ stmts' = Append(stmts, Built)
    /\ log' = Logged(log, "write", response)
    /\ pc' = "exit_exc"
    /\ UNCHANGED <<queue, response, data, err, table, deleted, clock, raw,
                   maskVars, eventVars>>

\* the committed row is put in front of the table
CommitPrepends ==
    /\ pc = "exit"
    /\ table' = txn.rows \o table
    /\ txn' = NoTxn
    /\ log' = Logged(log, "written", response)
    /\ pc' = "receive"
    /\ UNCHANGED <<queue, response, data, err, deleted, clock, raw, stmts,
                   maskVars, eventVars>>

\* connection.__exit__ without exception: commit; the loop goes on
Commit ==
    /\ pc = "exit"
    /\ table' = table \o txn.rows
    /\ txn' = NoTxn
    /\ log' = Logged(log, "written", response)
    /\ pc' = "receive"
    /\ UNCHANGED <<queue, response, data, err, deleted, clock, raw, stmts,
                   maskVars, eventVars>>

\* the loop catches the exception of write and goes on
RollbackSwallowed ==
    /\ pc = "exit_exc"
    /\ txn' = NoTxn
    /\ log' = Logged(log, "fail", response)
    /\ pc' = "receive"
    /\ UNCHANGED <<queue, response, data, err, table, deleted, clock, raw,
                   stmts, maskVars, eventVars>>

\* connection.__exit__ commits although an exception was raised
RollbackCommits ==
    /\ pc = "exit_exc"
    /\ table' = table \o txn.rows
    /\ txn' = NoTxn
    /\ log' = Logged(log, "fail", response)
    /\ pc' = "crashed"
    /\ err' = "write"
    /\ UNCHANGED <<queue, response, data, deleted, clock, raw, stmts,
                   maskVars, eventVars>>

\* connection.__exit__ with an exception: rollback, the exception leaves
\* write and start
Rollback ==
    /\ pc = "exit_exc"
    /\ txn' = NoTxn
    /\ log' = Logged(log, "fail", response)
    /\ pc' = "crashed"
    /\ err' = "write"
    /\ UNCHANGED <<queue, response, data, table, deleted, clock, raw, stmts,
                   maskVars, eventVars>>

Next ==
    \/ ReceiveFails
    \/ ReceiveEmpty
    \/ ReceiveMessage
    \/ DeleteMessage
    \/ DeleteFails
    \/ Loads
    \/ Validate
    \/ TransformStep
    \/ Execute
    \/ ExecuteFails
    \/ Commit
    \/ Rollback

Spec == Init /\ [][Next]_vars

\* the single control thread keeps running: whatever step the loop can take
\* next is eventually taken
LiveSpec == Spec /\ WF_vars(Next)

----------------------------------------------------------------------------
(* Properties *)

\* An event valid in the sense of the specification: a map that has all six
\* expected fields, none of them null.
SpecValid(d) ==
    /\ d.kind = "dict"
    /\ \A f \in ExpectedSet : Has(d.items, f) /\ Get(d.items, f) # NULL

\* m is v rotated left by floor(len(v) / 2)
IsRotation(m, v) ==
    /\ Len(m) = Len(v)
    /\ \A i \in 1..Len(v) : m[i] = v[((i - 1 + Len(v) \div 2) % Len(v)) + 1]

RECURSIVE NoDots(_)
NoDots(v) ==
    IF v = <<>> THEN <<>>
    ELSE IF Head(v) = "." THEN NoDots(Tail(v))
    ELSE <<Head(v)>> \o NoDots(Tail(v))

DeletedIds == {deleted[i] : i \in DOMAIN deleted}

\* C1 as stated: for every string s, of any length, _mask applied twice
\* returns s.
MaskSelfInverse == Len(masked) >= 2 => masked[2] = s

\* C1 amended: for every string s of even length (the empty string included)
\* or of length 1, _mask applied twice returns s.
MaskSelfInverseEvenLength ==
    (Len(masked) >= 2 /\ (Len(s) % 2 = 0 \/ Len(s) = 1)) => masked[2] = s

MaskSelfInverseWitness ==
    /\ Len(masked) = 2
    /\ Len(s) = 4
    /\ masked[1] # s
    /\ masked[2] = s

\* C2: every row handed to the store's write, and every row in the table,
\* derives from a raw event that had all six expected fields present and
\* non-null.
WrittenOnlyIfAllFieldsNonNull ==
    /\ pc \in {"write", "exit", "exit_exc"} => SpecValid(raw)
    /\ \A i \in DOMAIN table : SpecValid(Dict(table[i].raw))

\* C3: whenever the loop holds a message returned by receive_message (it is
\* validating, transforming or writing it, or has written it), the delete
\* request for that message has already been issued and the message has left
\* the queue.
DeleteBeforeProcessing ==
    /\ (pc \in {"validate", "transform", "write", "exit", "exit_exc"}
           /\ response # NoMessage)
          => (response.id \in DeletedIds /\ response.id \notin QueueIds)
    /\ \A i \in DOMAIN table : table[i].src \in DeletedIds

DeleteBeforeProcessingWitness ==
    /\ pc = "exit"
    /\ response.id \in DeletedIds
    /\ txn.rows # <<>>

\* C4: when the run has ended by a failed write, the message being written
\* has been deleted from the queue, is not in the queue and has no row in
\* the table: it is lost.
FailedWriteLosesMessage ==
    (pc = "crashed" /\ err = "write")
        => /\ response.id \in DeletedIds
           /\ response.id \notin QueueIds
           /\ response.id \notin TableIds

FailedWriteLosesMessageWitness ==
    /\ pc = "crashed" /\ err = "write"
    /\ SpecValid(raw)
    /\ response.id \in DeletedIds
    /\ response.id \notin QueueIds
    /\ response.id \notin TableIds

\* C5: an event that is none, misses one of the six expected fields or
\* carries null for one of them is dropped: the step after its validation
\* goes back to receive, nothing is written and no failure is raised.
InvalidEventDropped ==
    [][(pc = "validate" /\ ~SpecValid(data))
          => (pc' = "receive" /\ table' = table /\ txn' = txn /\ err' = "None")]_vars

\* C6: _is_valid returns a boolean, and it returns True exactly for the
\* events (not None) whose keys include all six expected fields, whatever
\* extra keys they carry.
IsValidFieldSetExact ==
    validRes # <<>>
        => /\ validRes[1] \in BOOLEAN
           /\ validRes[1] <=> (ev # None /\ ExpectedSet \subseteq Keys(ev.items))

IsValidFieldSetExactWitness ==
    /\ validRes = <<TRUE>>
    /\ "extra" \in Keys(ev.items)

\* C7: an empty poll returns None without error and changes neither queue
\* nor table, and the step after validating None is another receive, with
\* no write.
EmptyPollNoOp ==
    [][/\ (pc = "receive" /\ pc' = "validate" /\ response' = NoMessage)
             => (data' = None /\ err' = "None" /\ table' = table
                 /\ txn' = txn /\ queue' = queue)
       /\ (pc = "validate" /\ data = None)
             => (pc' = "receive" /\ table' = table /\ txn' = txn
                 /\ err' = "None")]_vars

EmptyPollNoOpWitness ==
    /\ pc = "validate"
    /\ data = None
    /\ queue # <<>>
    /\ table # <<>>

\* C8: once a write has failed the run ends with that failure and nothing
\* further is received, deleted or written.
WriteFailureIsFatal ==
    [][(pc = "exit_exc" \/ (pc = "crashed" /\ err = "write"))
          => (pc' = "crashed" /\ err' = "write" /\ queue' = queue
              /\ deleted' = deleted /\ table' = table)]_vars

WriteFailureIsFatalWitness ==
    /\ pc = "crashed" /\ err = "write"
    /\ queue # <<>>

\* C9: a write that completes commits exactly its one row; a write that
\* raises leaves the table as it was before the call; outside a write no
\* transaction is open and no row is pending.
WriteAtomic ==
    /\ [](pc \notin {"exit", "exit_exc"} => (~txn.open /\ txn.rows = <<>>))
    /\ [][/\ pc = "write" => table' = table
          /\ pc = "exit" => table' = Append(table, Entry)
          /\ pc = "exit_exc" => table' = table]_vars

WriteAtomicWitness ==
    /\ pc = "crashed" /\ err = "write"
    /\ table # <<>>
    /\ ~txn.open

\* The shape of the first _transform result for a valid event; the input
\* fields named in overwritten are exempt from keeping their value.
TransformShapeBut(overwritten) ==
    (Len(tr) >= 1 /\ SpecValid(ev))
        => LET in == ev.items
               out == tr[1].data
           IN  /\ tr[1].err = "None"
               /\ Keys(out) = (Keys(in) \ {"ip", "device_id"})
                                \cup {"masked_ip", "masked_device_id", "create_date"}
               /\ \A k \in Keys(in) \ ({"ip", "device_id", "app_version"} \cup overwritten) :
                      Get(out, k) = Get(in, k)
               /\ IsRotation(Get(out, "masked_ip"), Get(in, "ip"))
               /\ IsRotation(Get(out, "masked_device_id"), Get(in, "device_id"))
               /\ Get(out, "app_version") = NoDots(Get(in, "app_version"))

\* C10 as stated: for a valid event, _transform returns; the output keys are
\* the input keys minus {ip, device_id} plus {masked_ip, masked_device_id,
\* create_date}; every other input field except app_version keeps its value;
\* masked_ip and masked_device_id are the rotations of ip and device_id;
\* app_version is its input without dots.
TransformShape == TransformShapeBut({})

\* C10 amended: as stated, except that an extra input field named masked_ip,
\* masked_device_id or create_date does not keep its input value (it is
\* overwritten by the computed one).
TransformShapeAmended ==
    TransformShapeBut({"masked_ip", "masked_device_id", "create_date"})

TransformShapeWitness ==
    /\ Len(tr) >= 1
    /\ SpecValid(ev)
    /\ "extra" \in Keys(ev.items)
    /\ Get(ev.items, "ip") = <<"a", ".">>
    /\ Get(tr[1].data, "masked_ip") = <<".", "a">>
    /\ Get(ev.items, "app_version") = <<".", "b">>
    /\ Get(tr[1].data, "app_version") = <<"b">>


RowColumns ==
    {"user_id", "device_type", "locale", "masked_ip", "masked_device_id",
     "app_version", "create_date"}

\* The fields of a built row that the transform rules fix, for the write w.
RowCore(w) ==
    /\ w.stmt[2] = Identifier(Table)
    /\ RowColumns \subseteq Keys(w.row)
    /\ "ip" \notin Keys(w.row) /\ "device_id" \notin Keys(w.row)
    /\ \A k \in {"user_id", "device_type", "locale"} : Get(w.row, k) = Get(w.raw, k)
    /\ IsRotation(Get(w.row, "masked_ip"), Get(w.raw, "ip"))
    /\ IsRotation(Get(w.row, "masked_device_id"), Get(w.raw, "device_id"))
    /\ Get(w.row, "app_version") = NoDots(Get(w.raw, "app_version"))
    /\ \E n \in 1..clock : Get(w.row, "create_date") = DateVal(n)

\* C11 as stated: every row handed to write for a valid event has exactly the
\* seven columns user_id, device_type, locale, masked_ip, masked_device_id,
\* app_version, create_date, with the values the transform rules give, for
\* the configured table.
EndToEndRowExact ==
    \A k \in DOMAIN stmts :
        SpecValid(Dict(stmts[k].raw))
            => (RowCore(stmts[k]) /\ Keys(stmts[k].row) = RowColumns)

\* C11 amended: as stated, except that the row also carries every extra
\* field of the event, unchanged unless it is named masked_ip,
\* masked_device_id or create_date.
EndToEndRowWithExtras ==
    \A k \in DOMAIN stmts :
        SpecValid(Dict(stmts[k].raw))
            => /\ RowCore(stmts[k])
               /\ Keys(stmts[k].row)
                     = RowColumns \cup (Keys(stmts[k].raw) \ ExpectedSet)
               /\ \A x \in Keys(stmts[k].raw) \ (ExpectedSet \cup RowColumns) :
                     Get(stmts[k].row, x) = Get(stmts[k].raw, x)

EndToEndRowWitness ==
    /\ pc = "receive"
    /\ Len(table) = 2
    /\ Keys(table[1].row) = RowColumns
    /\ "extra" \in Keys(table[2].row)
    /\ Get(table[1].row, "app_version") = <<"a", "b">>


\* C12: an unparseable body makes receive_message raise instead of returning
\* (data is not assigned), a failing receive raises too; either ends the run
\* at once, with no further receive and no row built or written.
ReceiveFailuresSurface ==
    /\ [](pc = "crashed" /\ err = "JSONDecodeError"
             => (response.id \notin TableIds
                 /\ \A k \in DOMAIN stmts : stmts[k].src # response.id))
    /\ [][/\ (pc = "loads" /\ response.body.kind = "malformed")
                => (pc' = "crashed" /\ err' = "JSONDecodeError" /\ data' = data
                    /\ table' = table /\ stmts' = stmts /\ txn' = txn)
          /\ (pc = "receive" /\ pc' = "crashed")
                => (err' = "receive" /\ data' = data /\ queue' = queue
                    /\ table' = table /\ stmts' = stmts /\ txn' = txn)
          /\ (pc = "crashed" /\ err \in {"JSONDecodeError", "receive"})
                => FALSE]_vars

ReceiveFailuresSurfaceWitness ==
    /\ pc = "crashed"
    /\ err = "JSONDecodeError"
    /\ response.body = Malformed
    /\ table # <<>>

\* the column names of a built row, in order
Columns(w) == [i \in DOMAIN w.row |-> w.row[i][1]]

\* the number of tokens of statement st equal to tok
Count(st, tok) == Cardinality({i \in DOMAIN st : st[i] = tok})

\* C13: two writes of rows with the same column names in the same order build
\* the same statement; a statement consists of literal text and quoted
\* identifiers only (the table and the columns), is one INSERT, has one
\* placeholder per column, and the values are bound in column order.
StatementIgnoresValues ==
    /\ \A i, j \in DOMAIN stmts :
          Columns(stmts[i]) = Columns(stmts[j]) => stmts[i].stmt = stmts[j].stmt
    /\ \A k \in DOMAIN stmts :
          LET w == stmts[k]
          IN  /\ \A i \in DOMAIN w.stmt :
                    \/ w.stmt[i][1] = "sql"
                    \/ w.stmt[i] = Identifier(Table)
                    \/ \E c \in DOMAIN w.row : w.stmt[i] = Identifier(w.row[c][1])
              /\ Count(w.stmt, SQL("INSERT INTO ")) = 1
              /\ Count(w.stmt, SQL("%s")) = Len(w.row)
              /\ Len(w.params) = Len(w.row)
              /\ \A c \in DOMAIN w.row : w.params[c] = w.row[c][2]

StatementIgnoresValuesWitness ==
    /\ Len(stmts) = 2
    /\ Columns(stmts[1]) = Columns(stmts[2])
    /\ stmts[1].params # stmts[2].params
    /\ stmts[1].stmt = stmts[2].stmt


\* C14 as stated: a second _transform on the object the first one returned
\* completes and leaves the original ip string under masked_ip.
TransformTwiceRestoresIp ==
    Len(tr) >= 2
        => /\ tr[2].err = "None"
           /\ Get(tr[2].data, "masked_ip") = Get(ev.items, "ip")

\* C14 amended: a second _transform on the object the first one returned does
\* not complete: it raises KeyError (the first removed ip) and leaves the
\* object as the first call returned it, masked_ip still being mask(ip).
TransformTwiceRaises ==
    Len(tr) >= 2
        => /\ tr[2].err = "KeyError"
           /\ tr[2].data = tr[1].data
           /\ IsRotation(Get(tr[2].data, "masked_ip"), Get(ev.items, "ip"))

TransformTwiceWitness ==
    /\ Len(tr) = 2
    /\ tr[2].err = "KeyError"
    /\ Get(ev.items, "ip") = <<"a", "b">>
    /\ Get(tr[2].data, "masked_ip") = <<"b", "a">>

\* the number of occurrences of character c in string v
Occurrences(v, c) == Cardinality({i \in DOMAIN v : v[i] = c})

\* C15: _mask(s) has the length of s, is s rotated (so has the same
\* characters as often), and no other string of that length has the same
\* mask.
MaskIsBijection ==
    Len(masked) >= 1
        => /\ Len(masked[1]) = Len(s)
           /\ IsRotation(masked[1], s)
           /\ \A c \in Chars : Occurrences(masked[1], c) = Occurrences(s, c)
           /\ \A t \in [1..Len(s) -> Chars] : t # s => Mask(t) # masked[1]

MaskIsBijectionWitness ==
    /\ Len(masked) >= 1
    /\ Len(s) = 3
    /\ masked[1] # s

\* C16: removing every '.' leaves no '.', keeps the other characters in
\* order, and removing again changes nothing.
StripDotsIdempotent ==
    /\ Len(stripped) >= 1
          => (Occurrences(stripped[1], ".") = 0 /\ stripped[1] = NoDots(s))
    /\ Len(stripped) >= 2 => stripped[2] = stripped[1]

StripDotsIdempotentWitness ==
    /\ Len(stripped) = 2
    /\ Occurrences(s, ".") = 2
    /\ Len(stripped[1]) = Len(s) - 2
    /\ stripped[2] = stripped[1]


\* the ids of the messages with a log entry of kind op
Ids(op) == {log[i].msg.id : i \in {j \in DOMAIN log : log[j].op = op}}

\* the number of log entries of kind op about message id
CountOp(op, id) ==
    Cardinality({i \in DOMAIN log : log[i].op = op /\ log[i].msg.id = id})

\* received and not yet dropped, written or failed
InFlight == Ids("deliver") \ (Ids("drop") \cup Ids("written") \cup Ids("fail"))

\* C17 as stated: at most one message is in flight, none is when a receive
\* is issued, and the loop then holds no event or row of a finished
\* iteration.
OneInFlightNothingHeld ==
    /\ Cardinality(InFlight) <= 1
    /\ pc = "receive" => (InFlight = {} /\ data = None)

\* C17 amended: at most one message is in flight and none is when a receive
\* is issued; the event or row of the finished iteration that the loop
\* variable still references at that point belongs to a message already
\* dropped or written, and is replaced by what receive_message returns.
OneInFlight ==
    /\ [](/\ Cardinality(InFlight) <= 1
          /\ pc = "receive" => InFlight = {}
          /\ (pc = "receive" /\ data # None)
                => response.id \in Ids("drop") \cup Ids("written"))
    /\ [][(pc \in {"receive", "loads"} /\ pc' = "validate")
             => data' = response'.body]_vars

OneInFlightWitness ==
    /\ pc = "validate"
    /\ Ids("written") # {}
    /\ Cardinality(InFlight) = 1
    /\ data = response.body
    /\ table # <<>>

\* the delivered messages, in delivery order
Delivered == SelectSeq(log, LAMBDA e : e.op = "deliver")

\* C18: the table holds the rows of the written messages in the order of
\* their delivery, each the transform of its (valid) message; every valid
\* delivered message whose iteration ended without failure has its row.
WrittenInDeliveryOrder ==
    LET done == SelectSeq(Delivered, LAMBDA e : e.msg.id \in TableIds)
    IN  /\ Len(table) = Len(done)
        /\ \A i \in DOMAIN table :
              /\ table[i].src = done[i].msg.id
              /\ IsValid(done[i].msg.body)
              /\ \E n \in 1..MaxDate :
                    table[i].row = Transform(done[i].msg.body.items, DateVal(n)).data
        /\ TableIds = Ids("written")
        /\ \A i \in DOMAIN Delivered :
              LET m == Delivered[i].msg
              IN  (m.body.kind = "dict" /\ IsValid(m.body)
                   /\ m.id \notin InFlight /\ m.id \notin Ids("fail"))
                      => m.id \in TableIds

WrittenInDeliveryOrderWitness ==
    /\ Len(table) = 2
    /\ table[1].src = 2
    /\ table[2].src = 1
    /\ Len(Delivered) = 2
    /\ Delivered[1].msg.id = 2

\* C19: only a failure ends the run, and while none occurs every iteration
\* is followed by another receive: the loop is at receive infinitely often
\* unless a failure ends it.
LoopNeverStops ==
    /\ [](pc = "crashed" <=> err # "None")
    /\ [](pc \in {"receive", "delete", "loads", "validate", "transform",
                  "write", "exit", "exit_exc", "crashed"})
    /\ (pc # "receive") ~> (pc = "receive" \/ pc = "crashed")
    /\ ([]<>(pc = "receive")) \/ (<>(pc = "crashed"))

LoopNeverStopsWitness ==
    /\ pc = "receive"
    /\ err = "None"
    /\ Ids("drop") # {}
    /\ Ids("written") # {}
    /\ queue = <<>>

\* the delete requests issued so far
DeleteRequests == SelectSeq(log, LAMBDA e : e.op = "delete")

\* C20: writes never outnumber delete requests; a retrieved message has
\* exactly one delete request, an empty poll none; a valid message returned
\* to the loop is transformed exactly once and written at most once, an
\* invalid one never.
AtMostOnce ==
    /\ [](/\ Len(stmts) <= Len(DeleteRequests)
          /\ \A i \in DOMAIN Delivered :
                LET m == Delivered[i].msg
                    busy == m.id = response.id
                IN  /\ CountOp("deliver", m.id) = 1
                    /\ CountOp("delete", m.id)
                          = IF busy /\ pc = "delete" THEN 0 ELSE 1
                    /\ CountOp("transform", m.id) <= 1
                    /\ CountOp("write", m.id) <= 1
                    /\ CountOp("write", m.id) <= CountOp("transform", m.id)
                    /\ (m.id \in DeletedIds /\ m.body.kind = "dict"
                        /\ ~(busy /\ pc \in {"loads", "validate", "transform"}))
                          => CountOp("transform", m.id)
                                = IF IsValid(m.body) THEN 1 ELSE 0)
    /\ [][(pc = "receive" /\ pc' = "validate")
             => (log' = log /\ deleted' = deleted /\ stmts' = stmts)]_vars

AtMostOnceWitness ==
    /\ pc = "receive"
    /\ Len(stmts) = 2
    /\ Len(DeleteRequests) = 2
    /\ Len(table) = 2

====
